---- MODULE Spec2Model ----
(***************************************************************************)
(* A model of the ebd crate (src/src/lib.rs): ebd::Reader wraps a          *)
(* csv::Reader built with delimiter TAB and every other option at its      *)
(* default, advance() reads the next row into one reused csv::ByteRecord,  *)
(* and read_record() deserializes that ByteRecord into a Record with NO   *)
(* header record (deserialize(None)).                                      *)
(*                                                                         *)
(* An input stream is a sequence of elements.  An element is one of the    *)
(* special bytes TAB, LF, CR, QUOTE, one of the bytes "0".."9", "-", ".",  *)
(* the run BADUTF8 (bytes that are not valid UTF-8), or a run of ordinary  *)
(* bytes (letters, spaces, "/", "_": never a special byte, never a whole   *)
(* number).  The tokenizer treats every byte of such a run alike, so a run *)
(* is read as one element.                                                 *)
(***************************************************************************)
EXTENDS Integers, Sequences, FiniteSets, TLC

TAB == "<TAB>"
LF == "<LF>"
CR == "<CR>"
QUOTE == "<QUOTE>"
BADUTF8 == "<FF>"

\* F applied to the value of v, with v computed once.
Bind(v, F(_)) == CHOOSE y \in {F(x) : x \in {v}} : TRUE

\* The bound of the model: the largest number of data rows of an input.
MaxRows == 2

(***************************************************************************)
(* The Record schema, in declaration order.                                *)
(***************************************************************************)
Str(field, name) == [field |-> field, name |-> name, type |-> "str"]

F64(field, name) == [field |-> field, name |-> name, type |-> "f64"]

BoolFromU64(field, name) == [field |-> field, name |-> name, type |-> "bool_from_u64"]

Record ==
  << Str("global_unique_identifier", "GLOBAL UNIQUE IDENTIFIER"),
     Str("last_edited_date", "LAST EDITED DATE"),
     Str("taxonomic_order", "TAXONOMIC ORDER"),
     Str("category", "CATEGORY"),
     Str("common_name", "COMMON NAME"),
     Str("scientific_name", "SCIENTIFIC NAME"),
     Str("subspecies_common_name", "SUBSPECIES COMMON NAME"),
     Str("subspecies_scientific_name", "SUBSPECIES SCIENTIFIC NAME"),
     Str("observation_count", "OBSERVATION COUNT"),
     Str("breeding_bird_atlas_code", "BREEDING BIRD ATLAS CODE"),
     Str("breeding_bird_atlas_category", "BREEDING BIRD ATLAS CATEGORY"),
     Str("agesex", "AGE/SEX"),
     Str("country", "COUNTRY"),
     Str("country_code", "COUNTRY CODE"),
     Str("state", "STATE"),
     Str("state_code", "STATE CODE"),
     Str("county", "COUNTY"),
     Str("county_code", "COUNTY CODE"),
     Str("iba_code", "IBA CODE"),
     Str("bcr_code", "BCR CODE"),
     Str("usfws_code", "USFWS CODE"),
     Str("atlas_block", "ATLAS BLOCK"),
     Str("locality", "LOCALITY"),
     Str("locality_id", "LOCALITY ID"),
     Str("locality_type", "LOCALITY TYPE"),
     F64("latitude", "LATITUDE"),
     F64("longitude", "LONGITUDE"),
     Str("observation_date", "OBSERVATION DATE"),
     Str("time_observations_started", "TIME OBSERVATIONS STARTED"),
     Str("observer_id", "OBSERVER ID"),
     Str("sampling_event_identifier", "SAMPLING EVENT IDENTIFIER"),
     Str("protocol_type", "PROTOCOL TYPE"),
     Str("protocol_code", "PROTOCOL CODE"),
     Str("project_code", "PROJECT CODE"),
     Str("duration_minutes", "DURATION MINUTES"),
     Str("effort_distance_km", "EFFORT DISTANCE KM"),
     Str("effort_area_ha", "EFFORT AREA HA"),
     Str("number_observers", "NUMBER OBSERVERS"),
     BoolFromU64("all_species_reported", "ALL SPECIES REPORTED"),
     Str("group_identifier", "GROUP IDENTIFIER"),
     BoolFromU64("has_media", "HAS MEDIA"),
     BoolFromU64("approved", "APPROVED"),
     BoolFromU64("reviewed", "REVIEWED"),
     Str("reason", "REASON"),
     Str("trip_comments", "TRIP COMMENTS"),
     Str("species_comments", "SPECIES COMMENTS") >>

NFields == Len(Record)

\* The position of a field in the declaration order.
FieldIndex(field) == CHOOSE k \in 1..NFields : Record[k].field = field

BoolFields == {"all_species_reported", "has_media", "approved", "reviewed"}

(***************************************************************************)
(* The conversions of a field (a sequence of elements) to a typed value.   *)
(***************************************************************************)
Digits == <<"0", "1", "2", "3", "4", "5", "6", "7", "8", "9">>

IsDigit(c) == \E d \in 1..10 : Digits[d] = c

DigitVal(c) == (CHOOSE d \in 1..10 : Digits[d] = c) - 1

DigitChar(n) == Digits[n + 1]

RECURSIVE DecimalValue(_)
\* The number a sequence of digits writes (0 for none).
DecimalValue(ds) ==
  IF ds = <<>> THEN 0
  ELSE 10 * DecimalValue(SubSeq(ds, 1, Len(ds) - 1)) + DigitVal(ds[Len(ds)])

AllDigits(s) == s # <<>> /\ \A i \in 1..Len(s) : IsDigit(s[i])

None == [some |-> FALSE]

Some(v) == [some |-> TRUE, v |-> v]

\* str::parse::<u64>() on the elements of the model: one or more digits.
try_positive_integer64(s) == IF AllDigits(s) THEN Some(DecimalValue(s)) ELSE None

RECURSIVE Normalize(_, _)
\* A decimal m / 10^scale without trailing zeros in its fraction.
Normalize(m, scale) ==
  IF scale > 0 /\ m % 10 = 0 THEN Normalize(m \div 10, scale - 1)
  ELSE [m |-> m, scale |-> scale]

\* str::parse::<f64>() on the elements of the model: an optional "-", digits
\* with at most one ".", at least one digit.  The value is the decimal written.
ParseF64(s) ==
  LET neg == s # <<>> /\ s[1] = "-"
      body == IF neg THEN Tail(s) ELSE s
      dots == {i \in 1..Len(body) : body[i] = "."}
      wellFormed == /\ Cardinality(dots) <= 1
                    /\ \A i \in 1..Len(body) : i \in dots \/ IsDigit(body[i])
                    /\ Len(body) > Cardinality(dots)
      dot == IF dots = {} THEN Len(body) + 1 ELSE CHOOSE i \in dots : TRUE
      int == SubSeq(body, 1, dot - 1)
      frac == SubSeq(body, dot + 1, Len(body))
      n == Normalize(DecimalValue(int \o frac), Len(frac))
  IN  IF wellFormed THEN Some([neg |-> neg, m |-> n.m, scale |-> n.scale]) ELSE None

\* str::from_utf8 on a field.
IsUtf8(s) == \A i \in 1..Len(s) : s[i] # BADUTF8

(***************************************************************************)
(* serde's derived Deserialize for Record, driven by the csv crate's       *)
(* deserializer for a ByteRecord.                                          *)
(***************************************************************************)
Ok(v) == [kind |-> "Ok", value |-> v]

Err(e) == [kind |-> "Err", err |-> e]

\* panic!("TODO"): csv_core_read_record() does not return.
Panic == [kind |-> "Panic"]

\* U64ToBoolVisitor::visit_u64.
visit_u64(n) ==
  IF n = 0 THEN Ok(FALSE)
  ELSE IF n = 1 THEN Ok(TRUE)
  ELSE Panic

\* deserializer.deserialize_any(U64ToBoolVisitor): the csv deserializer infers
\* the type of the field and calls the visitor's method for it; the visitor
\* defines visit_u64 alone, and serde's default for every other method is an
\* "invalid type" error.
deserialize_bool_from_u64(s) ==
  IF s = <<"true">> \/ s = <<"false">> THEN Err("invalid_type")
  ELSE IF try_positive_integer64(s).some THEN visit_u64(try_positive_integer64(s).v)
  ELSE Err("invalid_type")

\* &'a str: the field's bytes, borrowed, once they are valid UTF-8.
deserialize_str(s) == IF IsUtf8(s) THEN Ok(s) ELSE Err("invalid_utf8")

\* f64: the field as UTF-8 text, then str::parse.
deserialize_f64(s) ==
  IF ~IsUtf8(s) THEN Err("invalid_utf8")
  ELSE IF ParseF64(s).some THEN Ok(ParseF64(s).v)
  ELSE Err("parse_float")

\* The conversion the declaration of a Record field asks for.
deserialize_field(type, s) ==
  CASE type = "str" -> deserialize_str(s)
    [] type = "f64" -> deserialize_f64(s)
    [] type = "bool_from_u64" -> deserialize_bool_from_u64(s)

Min(S) == CHOOSE x \in S : \A y \in S : x <= y

\* Without a header record the struct is deserialized as a sequence: the k-th
\* declared field from the k-th field of the row, in order, stopping at the
\* first field that is missing or fails (or panics).  Fields of the row after
\* the last declared one are not looked at.
visit_seq(fields) ==
  LET conv(k) == IF k > Len(fields) THEN Err("invalid_length")
                 ELSE deserialize_field(Record[k].type, fields[k])
      bad == {k \in 1..NFields : conv(k).kind # "Ok"}
  IN  IF bad = {} THEN Ok([k \in 1..NFields |-> conv(k).value])
      ELSE IF conv(Min(bad)).kind = "Panic" THEN Panic
      ELSE [kind |-> "Err", err |-> conv(Min(bad)).err, field |-> Min(bad)]

\* With a header record the struct is deserialized as a map: every column is
\* matched by its header name, columns with other names are skipped, and a
\* name met twice or never is an error.
visit_map(fields, headers) ==
  LET n == IF Len(fields) < Len(headers) THEN Len(fields) ELSE Len(headers)
      cols(k) == {c \in 1..n : headers[c] = <<Record[k].name>>}
      conv(k) == IF cols(k) = {} THEN Err("missing_field")
                 ELSE IF Cardinality(cols(k)) > 1 THEN Err("duplicate_field")
                 ELSE deserialize_field(Record[k].type, fields[Min(cols(k))])
      bad == {k \in 1..NFields : conv(k).kind # "Ok"}
  IN  IF bad = {} THEN Ok([k \in 1..NFields |-> conv(k).value])
      ELSE IF \E k \in bad : conv(k).kind = "Panic" THEN Panic
      ELSE [kind |-> "Err", err |-> conv(Min(bad)).err, field |-> Min(bad)]

\* ByteRecord::deserialize(headers).
deserialize(byte_record, headers) ==
  IF headers.some THEN visit_map(byte_record.fields, headers.v)
  ELSE visit_seq(byte_record.fields)

(***************************************************************************)
(* The tokenizer of the csv crate as ReaderBuilder::new().delimiter(b'\t') *)
(* configures it: delimiter TAB, terminator CR or LF or CRLF, quoting on   *)
(* with QUOTE as the quote and "" as the quote inside a quoted field, no   *)
(* escape byte, no comment byte.                                           *)
(***************************************************************************)
\* Terminator::CRLF, the default: CR, LF and CR LF all end a record.
IsTerminator(c) == c = CR \/ c = LF

Epsilon == "Epsilon"

Discard == "Discard"

CopyToOutput == "CopyToOutput"

To(state, action) == [state |-> state, action |-> action]

\* csv_core's transition function: the state after byte c and what is done
\* with c (Epsilon: c is looked at again in the new state).
transition_nfa(state, c) ==
  CASE state = "End" -> To("End", Epsilon)
    [] state = "StartRecord" ->
         IF IsTerminator(c) THEN To("StartRecord", Discard)
         ELSE To("StartField", Epsilon)
    [] state = "EndRecord" -> To("StartRecord", Epsilon)
    [] state = "StartField" ->
         IF c = QUOTE THEN To("InQuotedField", Discard)
         ELSE IF c = TAB THEN To("EndFieldDelim", Discard)
         ELSE IF IsTerminator(c) THEN To("EndFieldTerm", Epsilon)
         ELSE To("InField", CopyToOutput)
    [] state = "EndFieldDelim" -> To("StartField", Epsilon)
    [] state = "EndFieldTerm" -> To("InRecordTerm", Epsilon)
    [] state = "InField" ->
         IF c = TAB THEN To("EndFieldDelim", Discard)
         ELSE IF IsTerminator(c) THEN To("EndFieldTerm", Epsilon)
         ELSE To("InField", CopyToOutput)
    [] state = "InQuotedField" ->
         IF c = QUOTE THEN To("InDoubleEscapedQuote", Discard)
         ELSE To("InQuotedField", CopyToOutput)
    [] state = "InDoubleEscapedQuote" ->
         IF c = QUOTE THEN To("InQuotedField", CopyToOutput)
         ELSE IF c = TAB THEN To("EndFieldDelim", Discard)
         ELSE IF IsTerminator(c) THEN To("EndFieldTerm", Epsilon)
         ELSE To("InField", CopyToOutput)
    [] state = "InRecordTerm" ->
         IF c = CR THEN To("CRLF", Discard)
         ELSE To("EndRecord", Discard)
    [] state = "CRLF" ->
         IF c = LF THEN To("StartRecord", Discard)
         ELSE To("StartRecord", Epsilon)

\* The state the end of the input leaves the tokenizer in: between records the
\* input has ended, inside a record the record ends.
transition_final_nfa(state) ==
  IF state \in {"End", "StartRecord", "EndRecord", "CRLF"} THEN "End"
  ELSE "EndRecord"

is_field_final(state) == state \in {"End", "EndRecord", "CRLF", "EndFieldDelim"}

is_record_final(state) == state \in {"End", "EndRecord", "CRLF"}

\* One turn of the tokenizer's loop on scan = [state, pos, fields, cur, res]:
\* one transition on the byte at pos, or the end of the input.
nfa_step(input, scan) ==
  IF scan.pos > Len(input)
  THEN IF transition_final_nfa(scan.state) = "End"
       THEN [scan EXCEPT !.state = "End", !.res = "End"]
       ELSE [scan EXCEPT !.state = "EndRecord", !.res = "Record",
                         !.fields = Append(scan.fields, scan.cur), !.cur = <<>>]
  ELSE
    LET c == input[scan.pos]
        t == transition_nfa(scan.state, c)
        cur == IF t.action = CopyToOutput THEN Append(scan.cur, c) ELSE scan.cur
        pos == IF t.action = Epsilon THEN scan.pos ELSE scan.pos + 1
    IN  [state |-> t.state, pos |-> pos,
         fields |-> IF is_field_final(t.state) THEN Append(scan.fields, cur)
                    ELSE scan.fields,
         cur |-> IF is_field_final(t.state) THEN <<>> ELSE cur,
         res |-> IF is_record_final(t.state) THEN "Record" ELSE scan.res]

RECURSIVE nfa_loop(_, _, _)
\* Up to 2^k turns of the loop, stopping at the end of a record or of the input.
nfa_loop(input, scan, k) ==
  IF scan.res # "InputEmpty" THEN scan
  ELSE IF k = 0 THEN nfa_step(input, scan)
  ELSE Bind(nfa_loop(input, scan, k - 1), LAMBDA half : nfa_loop(input, half, k - 1))

RECURSIVE Log2Ceil(_)
Log2Ceil(n) == IF n <= 1 THEN 0 ELSE 1 + Log2Ceil((n + 1) \div 2)

\* csv_core::Reader::read_record from element pos of the input in state: the
\* record read (res = "Record") or the end of the input (res = "End"), and the
\* position and state the tokenizer stopped at.  A byte takes at most four
\* turns of the loop (three Epsilon transitions and the one that consumes it).
csv_core_read_record(input, pos, state) ==
  Bind([state |-> state, pos |-> pos, fields |-> <<>>, cur |-> <<>>,
        res |-> "InputEmpty"],
       LAMBDA scan : nfa_loop(input, scan, Log2Ceil(4 * (Len(input) + 1))))

(***************************************************************************)
(* csv::Reader: the input and the position in it, the tokenizer's state,   *)
(* the header record once read, the number of fields of the first record   *)
(* (the reader is not flexible), and whether the input has ended.          *)
(***************************************************************************)
ByteRecord_new == [fields |-> <<>>, position |-> None]

\* A reader built with has_headers(false): the first row is data like any other.
csv_from_reader_no_headers(input) ==
  [input |-> input, pos |-> 1, state |-> "StartRecord", has_headers |-> FALSE,
   headers |-> None, first_field_count |-> None, eof |-> FALSE]

\* csv::ReaderBuilder::new().delimiter(b'\t').from_reader(reader)
csv_from_reader(input) ==
  [input |-> input, pos |-> 1, state |-> "StartRecord", has_headers |-> TRUE,
   headers |-> None, first_field_count |-> None, eof |-> FALSE]

\* ReaderState::add_record: every record must have as many fields as the first.
add_record(rdr, record) ==
  IF ~rdr.first_field_count.some
  THEN [ret |-> Ok(TRUE),
        rdr |-> [rdr EXCEPT !.first_field_count = Some(Len(record.fields))]]
  ELSE IF Len(record.fields) # rdr.first_field_count.v
  THEN [ret |-> [kind |-> "Err", err |-> "UnequalLengths",
                 expected_len |-> rdr.first_field_count.v, len |-> Len(record.fields)],
        rdr |-> rdr]
  ELSE [ret |-> Ok(TRUE), rdr |-> rdr]

\* csv::Reader::read_byte_record_impl: clear the record, then fill it from the
\* input.  A record of the wrong length is an error that leaves the record
\* filled.  The result is [ret, rdr, record].
read_byte_record_impl(rdr, record) ==
  LET cleared == [fields |-> <<>>, position |-> Some(rdr.pos - 1)]
  IN  IF rdr.eof THEN [ret |-> Ok(FALSE), rdr |-> rdr, record |-> cleared]
      ELSE Bind(csv_core_read_record(rdr.input, rdr.pos, rdr.state),
                LAMBDA r :
                  LET read == [rdr EXCEPT !.pos = r.pos, !.state = r.state]
                      filled == [cleared EXCEPT !.fields = r.fields]
                  IN  IF r.res = "End"
                      THEN [ret |-> Ok(FALSE), rdr |-> [read EXCEPT !.eof = TRUE],
                            record |-> cleared]
                      ELSE [ret |-> add_record(read, filled).ret,
                            rdr |-> add_record(read, filled).rdr,
                            record |-> filled])

\* csv::Reader::read_byte_record: the first call reads the first record of the
\* input, keeps it as the header record and, the reader having headers, goes
\* on to the next record; every later call reads one record.
read_byte_record(rdr, record) ==
  Bind(read_byte_record_impl(rdr, record),
       LAMBDA first :
         LET kept == [first.rdr EXCEPT !.headers = Some(first.record.fields)]
         IN  IF first.ret.kind = "Ok" /\ ~rdr.headers.some
             THEN IF rdr.has_headers THEN read_byte_record_impl(kept, first.record)
                  ELSE [first EXCEPT !.rdr = kept]
             ELSE first)

(***************************************************************************)
(* ebd::Reader                                                             *)
(***************************************************************************)
\* Reader::from_reader
from_reader(input) ==
  [csv_reader |-> csv_from_reader(input), csv_byte_record |-> ByteRecord_new]

\* Reader::advance: [ret, self].
advance(self) ==
  Bind(read_byte_record(self.csv_reader, self.csv_byte_record),
       LAMBDA r : [ret |-> r.ret,
                   self |-> [csv_reader |-> r.rdr, csv_byte_record |-> r.record]])

\* A read_record that takes the buffered row out of the reader.
read_record_taking(self) ==
  [ret |-> deserialize(self.csv_byte_record, None),
   self |-> [self EXCEPT !.csv_byte_record = ByteRecord_new]]

\* A read_record that hands the header record to the deserializer.
read_record_with_headers(self) ==
  [ret |-> deserialize(self.csv_byte_record, self.csv_reader.headers), self |-> self]

\* Reader::read_record: [ret, self]; self is borrowed shared and is not changed.
read_record(self) ==
  [ret |-> deserialize(self.csv_byte_record, None), self |-> self]

(***************************************************************************)
(* The inputs.  A table is a header (a sequence of column names) and data  *)
(* rows (sequences of tokens); the stream is its lines, the tokens of a    *)
(* line joined by TAB and ended by LF.  A scenario is a table in the       *)
(* declared column order with at most one probe (one token of one row      *)
(* replaced, or one token appended to one row), and a transform that makes *)
(* the table of the second reader from the table of the first.             *)
(***************************************************************************)
RECURSIVE JoinFrom(_, _)
\* The tokens from the k-th on, joined by TAB.
JoinFrom(tokens, k) ==
  IF k > Len(tokens) THEN <<>>
  ELSE IF k = Len(tokens) THEN tokens[k]
  ELSE tokens[k] \o <<TAB>> \o JoinFrom(tokens, k + 1)

Line(tokens) == JoinFrom(tokens, 1) \o <<LF>>

RECURSIVE LinesFrom(_, _)
LinesFrom(rows, r) ==
  IF r > Len(rows) THEN <<>> ELSE Line(rows[r]) \o LinesFrom(rows, r + 1)

Serialize(t) == Line(t.header) \o LinesFrom(t.rows, 1)

SwapAt(s, i, j) == [s EXCEPT ![i] = s[j], ![j] = s[i]]

InsertAt(s, p, x) == SubSeq(s, 1, p - 1) \o <<x>> \o SubSeq(s, p, Len(s))

RemoveAt(s, p) == SubSeq(s, 1, p - 1) \o SubSeq(s, p + 1, Len(s))

\* The token of data row r in the column of the k-th declared field: text that
\* names the field and the row, a decimal, or 0 / 1.
BaseToken(r, k) ==
  CASE Record[k].type = "str" -> <<Record[k].field \o DigitChar(r)>>
    [] Record[k].field = "latitude" -> <<"4", "5", ".", DigitChar(r)>>
    [] Record[k].field = "longitude" -> <<"-", "9", "3", ".", "0">>
    [] Record[k].type = "bool_from_u64" -> <<DigitChar((k + r) % 2)>>

BaseRow(r) == [k \in 1..NFields |-> BaseToken(r, k)]

CanonicalHeader == [k \in 1..NFields |-> <<Record[k].name>>]

ExtraName == "EXTRA COLUMN"

ProbeTokens ==
  { <<"0">>, <<"1">>, <<"2">>, <<"-", "1">>, <<>>, <<"true">>, <<"abc">>,
    <<"4", "0", ".", "7", "1", "2", "8">>,
    <<QUOTE, "q">>, <<QUOTE, "q", QUOTE>>, <<"x", QUOTE, "y">>, <<BADUTF8>> }

\* Columns probed: a text column, the two ends, the decimals, the four flags,
\* and NFields + 1 for a token appended to the row.
ProbeCols ==
  { 1, FieldIndex("latitude"), FieldIndex("all_species_reported"),
    FieldIndex("has_media"), FieldIndex("approved"), FieldIndex("reviewed"),
    NFields, NFields + 1 }

NoProbe == [row |-> 0, col |-> 0, token |-> <<>>]

Probes(n) ==
  {NoProbe} \cup [row : 1..n, col : ProbeCols, token : ProbeTokens]

ProbedRow(r, probe) ==
  IF probe.row # r THEN BaseRow(r)
  ELSE IF probe.col = NFields + 1 THEN Append(BaseRow(r), probe.token)
  ELSE [BaseRow(r) EXCEPT ![probe.col] = probe.token]

BaseTable(n, probe) ==
  [header |-> CanonicalHeader, rows |-> [r \in 1..n |-> ProbedRow(r, probe)]]

NameTransforms ==
  {[op |-> "same", i |-> 0, j |-> 0]}
  \cup [op : {"reorder_names"}, i : {1}, j : {FieldIndex("latitude")}]
  \cup [op : {"rename"}, i : {FieldIndex("reviewed")}, j : {0}]

Transforms ==
  NameTransforms
  \cup [op : {"permute"}, i : {1}, j : {2, FieldIndex("latitude")}]
  \cup [op : {"permute"}, i : {FieldIndex("all_species_reported")},
        j : {FieldIndex("has_media")}]
  \cup [op : {"reorder_names"}, i : {1}, j : {2, FieldIndex("latitude")}]
  \cup [op : {"rename"}, i : {1, FieldIndex("reviewed")}, j : {0}]
  \cup [op : {"extra"}, i : {1, FieldIndex("longitude"), NFields + 1}, j : {0}]
  \cup [op : {"drop"}, i : {1, NFields}, j : {0}]

Transform(t, tr) ==
  LET n == Len(t.rows)
  IN  CASE tr.op = "same" -> t
        [] tr.op = "permute" ->
             [header |-> SwapAt(t.header, tr.i, tr.j),
              rows |-> [r \in 1..n |-> SwapAt(t.rows[r], tr.i, tr.j)]]
        [] tr.op = "reorder_names" ->
             [t EXCEPT !.header = SwapAt(t.header, tr.i, tr.j)]
        [] tr.op = "rename" ->
             [t EXCEPT !.header = [t.header EXCEPT ![tr.i] = <<ExtraName>>]]
        [] tr.op = "extra" ->
             [header |-> InsertAt(t.header, tr.i, <<ExtraName>>),
              rows |-> [r \in 1..n |-> InsertAt(t.rows[r], tr.i, <<"x" \o DigitChar(r)>>)]]
        [] tr.op = "drop" ->
             [header |-> RemoveAt(t.header, tr.i),
              rows |-> [r \in 1..n |-> RemoveAt(t.rows[r], tr.i)]]

\* Every probe is tried on one input read twice and under a change of the
\* header names alone; every transform on the tables without a probe.
Scenarios ==
  UNION {[n : {n}, probe : Probes(n), transform : NameTransforms] : n \in 0..MaxRows}
  \cup [n : 0..MaxRows, probe : {NoProbe}, transform : Transforms]

\* The table reader i reads in a scenario.
Table(sc, i) ==
  IF i = 1 THEN BaseTable(sc.n, sc.probe)
  ELSE Transform(BaseTable(sc.n, sc.probe), sc.transform)

(***************************************************************************)
(* The state: two readers, each on its own input, driven by one caller.    *)
(* advance_ret and read_ret are what the last advance() and the last       *)
(* read_record() since that advance() returned; trues and errors count the *)
(* advance() calls that returned Ok(true) and an error.                    *)
(***************************************************************************)
VARIABLES scenario, reader, advance_ret, read_ret, trues, errors, last_op

vars == <<scenario, reader, advance_ret, read_ret, trues, errors, last_op>>

Readers == {1, 2}

NoCall == [kind |-> "NoCall"]

\* A reader whose read_record() panicked takes no further call.
Alive(i) == read_ret[i].kind # "Panic"

Init ==
  /\ scenario \in Scenarios
  /\ reader = [i \in Readers |->
                 Bind(Table(scenario, i), LAMBDA t : from_reader(Serialize(t)))]
  /\ advance_ret = [i \in Readers |-> NoCall]
  /\ read_ret = [i \in Readers |-> NoCall]
  /\ trues = [i \in Readers |-> 0]
  /\ errors = [i \in Readers |-> 0]
  /\ last_op = [i \in Readers |-> "from_reader"]

\* The caller calls advance() on both readers.
Advance ==
  /\ {i \in Readers : Alive(i)} # {}
  /\ \E r \in {<<advance(reader[1]), advance(reader[2])>>} :
       /\ reader' = [i \in Readers |-> IF Alive(i) THEN r[i].self ELSE reader[i]]
       /\ advance_ret' = [i \in Readers |-> IF Alive(i) THEN r[i].ret ELSE advance_ret[i]]
       /\ trues' = [i \in Readers |->
                      IF Alive(i) /\ r[i].ret = Ok(TRUE) THEN trues[i] + 1 ELSE trues[i]]
       /\ errors' = [i \in Readers |->
                       IF Alive(i) /\ r[i].ret.kind = "Err" THEN errors[i] + 1
                       ELSE errors[i]]
  /\ read_ret' = [i \in Readers |-> IF Alive(i) THEN NoCall ELSE read_ret[i]]
  /\ last_op' = [i \in Readers |-> IF Alive(i) THEN "advance" ELSE last_op[i]]
  /\ UNCHANGED scenario

\* The caller calls read_record() on both readers.
ReadRecord ==
  /\ {i \in Readers : Alive(i)} # {}
  /\ \E r \in {<<read_record(reader[1]), read_record(reader[2])>>} :
       /\ reader' = [i \in Readers |-> IF Alive(i) THEN r[i].self ELSE reader[i]]
       /\ read_ret' = [i \in Readers |-> IF Alive(i) THEN r[i].ret ELSE read_ret[i]]
  /\ last_op' = [i \in Readers |-> IF Alive(i) THEN "read_record" ELSE last_op[i]]
  /\ UNCHANGED <<scenario, advance_ret, trues, errors>>

Next ==
  \/ Advance
  \/ ReadRecord

Spec == Init /\ [][Next]_vars

(***************************************************************************)
(* What the claims speak of.                                               *)
(***************************************************************************)
\* The row reader i holds in its buffer.
Buffer(i) == reader[i].csv_byte_record

\* The number of elements of the header line of reader i's input.
HeaderLen(i) == Len(Line(Table(scenario, i).header))

\* The column of header that carries the name of the k-th declared field.
ColumnsOf(header, k) == {c \in 1..Len(header) : header[c] = <<Record[k].name>>}

LacksSchemaColumn(header) == \E k \in 1..NFields : ColumnsOf(header, k) = {}

\* A token the format allows in a column of the given type.
ValidToken(type, tok) ==
  CASE type = "str" -> IsUtf8(tok)
    [] type = "f64" -> ParseF64(tok).some
    [] type = "bool_from_u64" -> tok \in {<<"0">>, <<"1">>}

\* A well-formed input: the header carries every schema name once and nothing
\* else, in any order, and every data row has one valid token per column.
WellFormed(t) ==
  /\ Len(t.header) = NFields
  /\ \A k \in 1..NFields : Cardinality(ColumnsOf(t.header, k)) = 1
  /\ \A r \in 1..Len(t.rows) :
       /\ Len(t.rows[r]) = NFields
       /\ \A k \in 1..NFields :
            \A c \in ColumnsOf(t.header, k) : ValidToken(Record[k].type, t.rows[r][c])

BothRead == \A i \in Readers : read_ret[i].kind \in {"Ok", "Err"}

NamesOnly == scenario.transform.op \in {"reorder_names", "rename"}

(***************************************************************************)
(* The claims.                                                             *)
(***************************************************************************)
\* C1: on a well-formed input of a header row and N data rows, advance()
\* returns true exactly N times and then false, never an error, the header
\* not counted, and the read_record() after each true returns a Record.
C1_AdvanceCountsRows ==
  \A i \in Readers :
    WellFormed(Table(scenario, i)) =>
      /\ advance_ret[i].kind # "Err"
      /\ trues[i] <= scenario.n
      /\ advance_ret[i] = Ok(FALSE) => trues[i] = scenario.n
      /\ (advance_ret[i] = Ok(TRUE) /\ read_ret[i] # NoCall) => read_ret[i].kind = "Ok"

\* C2: for each of the four boolean fields the token 0 decodes to false and 1
\* to true, every other token makes read_record() return a decode error, and
\* no token makes it panic.  (Reader 1: the columns are in declared order.)
C2_BooleanTokens ==
  (read_ret[1] # NoCall /\ Len(Buffer(1).fields) >= NFields) =>
    /\ read_ret[1].kind # "Panic"
    /\ \A f \in BoolFields :
         LET tok == Buffer(1).fields[FieldIndex(f)]
         IN  IF tok \in {<<"0">>, <<"1">>}
             THEN read_ret[1].kind = "Ok" =>
                    read_ret[1].value[FieldIndex(f)] = (tok = <<"1">>)
             ELSE read_ret[1].kind = "Err"

\* C3: an input whose header names and data columns are reordered by the same
\* permutation decodes, row by row, to the Records of the unpermuted input.
C3_HeaderReorderingInvariance ==
  (scenario.transform.op = "permute" /\ BothRead) =>
    /\ read_ret[1].kind = read_ret[2].kind
    /\ read_ret[1].kind = "Ok" => read_ret[1].value = read_ret[2].value

\* C4: when the header lacks a column name the schema requires, the first
\* read_record() after the first advance() that returned true returns a decode
\* error: no panic, no Record.
C4_MissingColumnIsError ==
  \A i \in Readers :
    ( /\ LacksSchemaColumn(Table(scenario, i).header)
      /\ trues[i] = 1
      /\ advance_ret[i] = Ok(TRUE)
      /\ read_ret[i] # NoCall ) => read_ret[i].kind = "Err"

\* C5: read_record() returns a Record only when the advance() before it
\* returned true; before any advance(), after false and after an error it
\* returns an error.
C5_RecordOnlyAfterTrue ==
  \A i \in Readers :
    (read_ret[i] # NoCall /\ advance_ret[i] # Ok(TRUE)) => read_ret[i].kind = "Err"

\* C6, as stated: the first advance() that returns true has buffered the
\* first data row, the second row of the input.
C6_FirstTrueIsFirstDataRow ==
  \A i \in Readers :
    (advance_ret[i] = Ok(TRUE) /\ trues[i] = 1) =>
      Buffer(i).position = Some(HeaderLen(i))

\* C6, amended: the header row is never returned as data.  Every row that
\* advance() buffers starts after the header line, so no Record is built from
\* the header's tokens, and the first advance() that returns true has
\* buffered the first data row unless advance() returned an error before it.
C6_HeaderNeverData ==
  \A i \in Readers :
    /\ advance_ret[i] # NoCall =>
         Buffer(i).position.some /\ Buffer(i).position.v >= HeaderLen(i)
    /\ advance_ret[i] = Ok(TRUE) => Buffer(i).fields # Table(scenario, i).header
    /\ read_ret[i].kind = "Ok" => Buffer(i).position.v >= HeaderLen(i)
    /\ (advance_ret[i] = Ok(TRUE) /\ trues[i] = 1 /\ errors[i] = 0) =>
         Buffer(i).position = Some(HeaderLen(i))

\* Witness of C6: the first advance() has returned true with the first data
\* row in the buffer, and read_record() has made a Record of it.
C6_Witness ==
  /\ advance_ret[1] = Ok(TRUE) /\ trues[1] = 1 /\ errors[1] = 0
  /\ read_ret[1].kind = "Ok"
  /\ Buffer(1).fields = Table(scenario, 1).rows[1]

\* C7: a column that the schema does not name, added anywhere in the header
\* with its values in every data row, changes neither whether read_record()
\* succeeds nor the value of any Record field.
C7_ExtraColumnsIgnored ==
  (scenario.transform.op = "extra" /\ BothRead) =>
    /\ read_ret[1].kind = read_ret[2].kind
    /\ read_ret[1].kind = "Ok" => read_ret[1].value = read_ret[2].value

\* C8: read_record() only reads: whatever it returns, the buffered row, the
\* header state and the stream position stay as they were, and a
\* read_record() that follows a read_record() returns what that one returned.
C8_ReadRecordIsPure ==
  [][ReadRecord =>
       /\ reader' = reader
       /\ \A i \in Readers :
            (Alive(i) /\ last_op[i] = "read_record") => read_ret'[i] = read_ret[i]]_vars

\* Witness of C8: read_record() has returned a decode error for a buffered row.
C8_Witness ==
  /\ last_op[1] = "read_record"
  /\ advance_ret[1] = Ok(TRUE)
  /\ read_ret[1].kind = "Err"
  /\ Buffer(1).fields # <<>>

\* C9: every row is one line of the input and its fields are the spans
\* between the TABs of that line, quote characters included, and a text
\* field of the Record is its span verbatim.  (Reader 1.)
C9_BareDelimiters ==
  /\ advance_ret[1].kind \in {"Ok", "Err"} /\ advance_ret[1] # Ok(FALSE) =>
       Buffer(1).fields = Table(scenario, 1).rows[trues[1] + errors[1]]
  /\ advance_ret[1] = Ok(FALSE) => trues[1] + errors[1] = scenario.n
  /\ read_ret[1].kind = "Ok" =>
       \A k \in 1..NFields :
         Record[k].type = "str" =>
           read_ret[1].value[k] = Table(scenario, 1).rows[trues[1] + errors[1]][k]

====
